---------------------------- MODULE Spec2Model ----------------------------
(***************************************************************************)
(* Model of the numerical engine of attractor-search: the polynomial       *)
(* evaluator and RK4 integrator (src/src/ode.rs), the Lyapunov engine      *)
(* (src/src/lyapunov.rs) and the classifier (src/src/classify.rs).         *)
(*                                                                         *)
(* f64 values are modelled by a small decimal floating-point type with     *)
(* the same special values and the same rules for them: a finite value is  *)
(* m * 10^e with a four-digit mantissa (results are rounded to four        *)
(* digits, to nearest), an exponent above EMax overflows to an infinity,   *)
(* one below -EMax underflows to zero, and NaN is produced and propagated   *)
(* as IEEE-754 does (inf - inf, 0 * inf, 0 / 0, sqrt and ln of a negative).*)
(* Every comparison with a NaN is false.                                   *)
(***************************************************************************)
EXTENDS Integers, Sequences, FiniteSets, TLC

-----------------------------------------------------------------------------
(* Bounds of the model. *)

\* Largest decimal exponent of a finite value (f64: about 308).
EMax == 24
\* classify.rs:19 TRANSIENT is 1000; the model runs this many transient steps.
TRANSIENT == 2
\* classify.rs:20 CLASSIFY_STEPS is 5000.
CLASSIFY_STEPS == 3
\* classify.rs:21 LYAP_STEPS is 30000.
LYAP_STEPS == 6
\* classify.rs:22 RENORM is 10.
RENORM == 2
\* Largest transient / steps / renorm_interval argument of a direct call of
\* max_lyapunov or full_spectrum.
MaxTransient == 2
MaxSteps == 5
MaxRenorm == 2
\* Largest coordinate of a state rhs and jacobian are evaluated at.
MaxCoord == 1
\* integrate and integrate_traj are called with n in 0..MaxN.
MaxN == 3
\* At most this many entries are saved into the catalog directory.
MaxSaves == 2
\* The hash of a coefficient vector is one of this many values (u64 has 2^64).
HashMod == 256

-----------------------------------------------------------------------------
(* f64 *)

NaN == [k |-> "nan", m |-> 0, e |-> 0]
PInf == [k |-> "inf", m |-> 1, e |-> 0]
NInf == [k |-> "inf", m |-> -1, e |-> 0]
Zero == [k |-> "fin", m |-> 0, e |-> 0]

Abs(n) == IF n < 0 THEN -n ELSE n
Sgn(n) == IF n < 0 THEN -1 ELSE IF n > 0 THEN 1 ELSE 0
Inf(sg) == IF sg < 0 THEN NInf ELSE PInf

P10 == <<1, 10, 100, 1000, 10000, 100000, 1000000, 10000000, 100000000,
         1000000000>>

Pow10(n) == P10[n + 1]

\* Number of decimal digits of n >= 1.
Digits(n) ==
    IF n < 10 THEN 1 ELSE IF n < 100 THEN 2 ELSE IF n < 1000 THEN 3
    ELSE IF n < 10000 THEN 4 ELSE IF n < 100000 THEN 5
    ELSE IF n < 1000000 THEN 6 ELSE IF n < 10000000 THEN 7
    ELSE IF n < 100000000 THEN 8 ELSE IF n < 1000000000 THEN 9 ELSE 10

\* The quotient q rounded to nearest, ties to even, given the remainder r and
\* half of the divisor.
RoundHalfEven(q, r, half) ==
    IF r > half \/ (r = half /\ q % 2 = 1) THEN q + 1 ELSE q

\* mag with its last d digits rounded away.
DropDigits(mag, d) ==
    IF d <= 0 THEN mag * Pow10(-d)
    ELSE RoundHalfEven(mag \div Pow10(d), mag % Pow10(d), 5 * Pow10(d - 1))

\* sg * m * 10^x for a four-digit m: overflow to an infinity, underflow to 0.
Finite(sg, m, x) ==
    IF x > EMax THEN Inf(sg)
    ELSE IF x < -EMax THEN Zero
    ELSE [k |-> "fin", m |-> sg * m, e |-> x]

\* A rounding that carried into a fifth digit is renormalized.
Carry(sg, q, x) ==
    IF q = 10000 THEN Finite(sg, 1000, x + 1) ELSE Finite(sg, q, x)

\* The value sg * mag * 10^e rounded to four digits.
Round(sg, mag, e) ==
    IF mag = 0 \/ sg = 0 THEN Zero
    ELSE Carry(sg, DropDigits(mag, Digits(mag) - 4), e + Digits(mag) - 4)

\* The literal m * 10^e.
Fl(m, e) == Round(Sgn(m), Abs(m), e)

IsNaN(a) == a.k = "nan"
IsInf(a) == a.k = "inf"
is_finite(a) == a.k = "fin"
IsZero(a) == a.k = "fin" /\ a.m = 0

FNeg(a) == IF a.k = "nan" THEN NaN ELSE [a EXCEPT !.m = -a.m]
FAbs(a) == IF a.k = "nan" THEN NaN ELSE [a EXCEPT !.m = Abs(a.m)]

\* hi + lo for finite non-zero hi and lo with hi.e - lo.e = d >= 0.
AddAligned(hi, lo, d) ==
    IF d > 5 THEN hi ELSE Fl(hi.m * Pow10(d) + lo.m, lo.e)

FAddFin(a, b) ==
    IF a.m = 0 THEN b
    ELSE IF b.m = 0 THEN a
    ELSE AddAligned(IF a.e >= b.e THEN a ELSE b,
                    IF a.e >= b.e THEN b ELSE a, Abs(a.e - b.e))

FAdd(a, b) ==
    IF IsNaN(a) \/ IsNaN(b) THEN NaN
    ELSE IF IsInf(a) /\ IsInf(b) THEN (IF a.m = b.m THEN a ELSE NaN)
    ELSE IF IsInf(a) THEN a
    ELSE IF IsInf(b) THEN b
    ELSE FAddFin(a, b)

FSub(a, b) == FAdd(a, FNeg(b))

FMul(a, b) ==
    IF IsNaN(a) \/ IsNaN(b) THEN NaN
    ELSE IF IsInf(a) \/ IsInf(b)
         THEN (IF a.m = 0 \/ b.m = 0 THEN NaN ELSE Inf(Sgn(a.m) * Sgn(b.m)))
    ELSE Round(Sgn(a.m) * Sgn(b.m), Abs(a.m) * Abs(b.m), a.e + b.e)

FDiv(a, b) ==
    IF IsNaN(a) \/ IsNaN(b) THEN NaN
    ELSE IF IsInf(a) THEN (IF IsInf(b) THEN NaN
                           ELSE Inf(a.m * (IF b.m < 0 THEN -1 ELSE 1)))
    ELSE IF IsInf(b) THEN Zero
    ELSE IF b.m = 0 THEN (IF a.m = 0 THEN NaN ELSE Inf(Sgn(a.m)))
    ELSE Round(Sgn(a.m) * Sgn(b.m),
               (Abs(a.m) * Pow10(5)) \div Abs(b.m), a.e - b.e - 5)

\* a > b as f64 compares: false when either is a NaN.
FGtFin(a, b) ==
    IF Sgn(a.m) # Sgn(b.m) THEN Sgn(a.m) > Sgn(b.m)
    ELSE IF a.m = 0 THEN FALSE
    ELSE IF a.m > 0
         THEN a.e > b.e \/ (a.e = b.e /\ a.m > b.m)
         ELSE a.e < b.e \/ (a.e = b.e /\ a.m > b.m)

FGt(a, b) ==
    IF IsNaN(a) \/ IsNaN(b) THEN FALSE
    ELSE IF IsInf(a) THEN a.m > 0 /\ b # PInf
    ELSE IF IsInf(b) THEN b.m < 0
    ELSE FGtFin(a, b)

FLt(a, b) == FGt(b, a)

RECURSIVE ISqrtBetween(_, _, _)
\* The largest r in lo..hi with r * r <= n (hi <= 46340 keeps r * r in range).
ISqrtBetween(n, lo, hi) ==
    IF lo = hi THEN lo
    ELSE IF ((lo + hi + 1) \div 2) * ((lo + hi + 1) \div 2) <= n
    THEN ISqrtBetween(n, (lo + hi + 1) \div 2, hi)
    ELSE ISqrtBetween(n, lo, ((lo + hi + 1) \div 2) - 1)

\* sqrt(m * 10^e) for m > 0, with m scaled by 10^shift to make e - shift even.
SqrtScaled(m, e, shift) ==
    Round(1, ISqrtBetween(m * Pow10(shift), 0, 31622), (e - shift) \div 2)

FSqrt(a) ==
    IF IsNaN(a) THEN NaN
    ELSE IF a.m < 0 THEN NaN
    ELSE IF IsInf(a) THEN PInf
    ELSE IF a.m = 0 THEN Zero
    ELSE SqrtScaled(a.m, a.e, IF a.e % 2 # 0 THEN 5 ELSE 4)

\* 1.0, 2.0, 0.5, 6.0
One == [k |-> "fin", m |-> 1000, e |-> -3]
Two == [k |-> "fin", m |-> 2000, e |-> -3]
Half == [k |-> "fin", m |-> 5000, e |-> -4]
Six == [k |-> "fin", m |-> 6000, e |-> -3]

\* 2 * atanh(z) by the first four terms of its series, z2 being z * z.
LnSeries(z, z2) ==
    FMul(FMul(Two, z),
         FAdd(One,
              FMul(z2, FAdd(Fl(3333, -4),
                            FMul(z2, FAdd(Fl(2, -1),
                                          FMul(z2, Fl(1429, -4))))))))

\* 2 * atanh(z)
LnAtanh(z) == LnSeries(z, FMul(z, z))

\* ln of y in [1/2, 2]: 2 * atanh((y - 1) / (y + 1)).
LnNear1(y) == LnAtanh(FDiv(FSub(y, One), FAdd(y, One)))

\* x * ln(10) + c + ln(y)
LnParts(x, c, y) ==
    FAdd(FAdd(FMul(Fl(x, 0), Fl(2303, -3)), c), LnNear1(y))

\* ln of a finite a > 0: a = y * 10^x with y in [1, 10) is brought next to 1
\* (y itself, y / 4 or y / 10) and the logarithm of the factor is added.
FLnPos(a) ==
    LnParts(IF a.m < 5000 THEN a.e + 3 ELSE a.e + 4,
            IF a.m < 2000 \/ a.m >= 5000 THEN Zero
            ELSE FMul(Two, Fl(6931, -4)),
            IF a.m < 2000 THEN [k |-> "fin", m |-> a.m, e |-> -3]
            ELSE IF a.m < 5000
            THEN FMul([k |-> "fin", m |-> a.m, e |-> -3], Fl(25, -2))
            ELSE [k |-> "fin", m |-> a.m, e |-> -4])

FLn(a) ==
    IF IsNaN(a) THEN NaN
    ELSE IF a.m < 0 THEN NaN
    ELSE IF IsInf(a) THEN PInf
    ELSE IF a.m = 0 THEN NInf
    ELSE FLnPos(a)

-----------------------------------------------------------------------------
(* ode.rs: the polynomial evaluator and the RK4 integrator. *)

NTERMS == 10
NCOEFFS == 30

\* A [f64; 3]: indices 0..2 as in the source.
V3(a, b, c) == (0 :> a) @@ (1 :> b) @@ (2 :> c)

\* The [_; 3] with F(i) at index i.
Map3(F(_)) == V3(F(0), F(1), F(2))

\* A Coeffs with the entries of f (index :> value) and 0.0 elsewhere.
CoeffsOf(f) ==
    LET zeros == [i \in 0..(NCOEFFS - 1) |-> Zero]
    IN  f @@ zeros

basis(s) ==
    LET x == s[0]
        y == s[1]
        z == s[2]
    IN  (0 :> One) @@ (1 :> x) @@ (2 :> y) @@ (3 :> z)
        @@ (4 :> FMul(x, x)) @@ (5 :> FMul(y, y)) @@ (6 :> FMul(z, z))
        @@ (7 :> FMul(x, y)) @@ (8 :> FMul(x, z)) @@ (9 :> FMul(y, z))

RECURSIVE eval_eq_from(_, _, _, _, _)
\* The while loop of eval_eq from index i with the running value v.
eval_eq_from(c, off, b, i, v) ==
    IF i < NTERMS
    THEN eval_eq_from(c, off, b, i + 1, FAdd(v, FMul(c[off + i], b[i])))
    ELSE v

eval_eq(c, off, b) == eval_eq_from(c, off, b, 0, Zero)

\* The three equations evaluated on the monomials b.
rhs_on(c, b) ==
    V3(eval_eq(c, 0, b), eval_eq(c, NTERMS, b), eval_eq(c, 2 * NTERMS, b))

rhs(c, s) == rhs_on(c, basis(s))

\* Mutation of jacobian: the d/dx entry reads the xz coefficient for the xy term.
jacobian_swapped(c, s) ==
    LET x == s[0]
        y == s[1]
        z == s[2]
    IN  Map3(LAMBDA eq :
          LET o == eq * NTERMS
          IN  V3(FAdd(FAdd(FAdd(c[o + 1], FMul(FMul(Two, c[o + 4]), x)),
                           FMul(c[o + 8], y)),
                      FMul(c[o + 8], z)),
                 FAdd(FAdd(FAdd(c[o + 2], FMul(FMul(Two, c[o + 5]), y)),
                           FMul(c[o + 7], x)),
                      FMul(c[o + 9], z)),
                 FAdd(FAdd(FAdd(c[o + 3], FMul(FMul(Two, c[o + 6]), z)),
                           FMul(c[o + 8], x)),
                      FMul(c[o + 9], y))))

\* j[eq][col]: row eq holds the partials of equation eq w.r.t. x, y, z.
jacobian(c, s) ==
    LET x == s[0]
        y == s[1]
        z == s[2]
    IN  Map3(LAMBDA eq :
          LET o == eq * NTERMS
          IN  V3(FAdd(FAdd(FAdd(c[o + 1], FMul(FMul(Two, c[o + 4]), x)),
                           FMul(c[o + 7], y)),
                      FMul(c[o + 8], z)),
                 FAdd(FAdd(FAdd(c[o + 2], FMul(FMul(Two, c[o + 5]), y)),
                           FMul(c[o + 7], x)),
                      FMul(c[o + 9], z)),
                 FAdd(FAdd(FAdd(c[o + 3], FMul(FMul(Two, c[o + 6]), z)),
                           FMul(c[o + 8], x)),
                      FMul(c[o + 9], y))))

\* s + h * k, componentwise (the stage points of rk4_step and rk4_tangent).
Stage(s, h, k) == Map3(LAMBDA i : FAdd(s[i], FMul(h, k[i])))

\* k1 + 2.0*k2 + 2.0*k3 + k4, in the source's order of evaluation.
Weighted(k1, k2, k3, k4) ==
    FAdd(FAdd(FAdd(k1, FMul(Two, k2)), FMul(Two, k3)), k4)

\* The last line of rk4_step: the step from s with the four slopes.
rk4_combine(s, dt, k1, k2, k3, k4) ==
    Map3(LAMBDA i :
        FAdd(s[i], FMul(FDiv(dt, Six), Weighted(k1[i], k2[i], k3[i], k4[i]))))

\* rk4_step from the computation of k4 on.
rk4_from_k3(c, s, dt, k1, k2, k3) ==
    rk4_combine(s, dt, k1, k2, k3, rhs(c, Stage(s, dt, k3)))

\* rk4_step from the computation of k3 on.
rk4_from_k2(c, s, dt, k1, k2) ==
    rk4_from_k3(c, s, dt, k1, k2, rhs(c, Stage(s, FMul(Half, dt), k2)))

\* rk4_step from the computation of k2 on.
rk4_from_k1(c, s, dt, k1) ==
    rk4_from_k2(c, s, dt, k1, rhs(c, Stage(s, FMul(Half, dt), k1)))

rk4_step(c, s, dt) == rk4_from_k1(c, s, dt, rhs(c, s))

\* s[0]*s[0] + s[1]*s[1] + s[2]*s[2]
R2(s) == FAdd(FAdd(FMul(s[0], s[0]), FMul(s[1], s[1])), FMul(s[2], s[2]))

lorenz_coeffs(sigma, rho, beta) ==
    CoeffsOf((1 :> FNeg(sigma)) @@ (2 :> sigma)
             @@ (NTERMS + 1 :> rho) @@ (NTERMS + 2 :> Fl(-1, 0))
             @@ (NTERMS + 8 :> Fl(-1, 0))
             @@ (2 * NTERMS + 3 :> FNeg(beta)) @@ (2 * NTERMS + 7 :> One))

-----------------------------------------------------------------------------
(* lyapunov.rs: 3-vector operations, co-integration, Gram-Schmidt. *)

dot(a, b) == FAdd(FAdd(FMul(a[0], b[0]), FMul(a[1], b[1])), FMul(a[2], b[2]))

norm(a) == FSqrt(dot(a, a))

scale(a, s) == Map3(LAMBDA i : FMul(a[i], s))

sub(a, b) == Map3(LAMBDA i : FSub(a[i], b[i]))

add(a, b) == Map3(LAMBDA i : FAdd(a[i], b[i]))

mat_vec(m, v) ==
    Map3(LAMBDA i :
        FAdd(FAdd(FMul(m[i][0], v[0]), FMul(m[i][1], v[1])), FMul(m[i][2], v[2])))

\* The standard basis, the tangent set at the start of full_spectrum.
StdBasis == V3(V3(One, Zero, Zero), V3(Zero, One, Zero), V3(Zero, Zero, One))

\* The slopes of one stage of rk4_tangent: f of the state, and the Jacobian j
\* applied to each of the three tangent vectors w.
slopes_on(f, j, w) == [f |-> f, g |-> Map3(LAMBDA i : mat_vec(j, w[i]))]

\* The slopes at the stage point p = (s, w).
slopes(c, p) == slopes_on(rhs(c, p.s), jacobian(c, p.s), p.w)

\* The stage point h along the slopes k from (s, w).
stage_point(s, w, h, k) ==
    [s |-> Stage(s, h, k.f),
     w |-> Map3(LAMBDA i : add(w[i], scale(k.g[i], h)))]

\* The end of rk4_tangent: sn and wn from the four stages' slopes.
tangent_combine(s, w, d6, k1, k2, k3, k4) ==
    [s |-> Map3(LAMBDA i :
               FAdd(s[i], FMul(d6, Weighted(k1.f[i], k2.f[i], k3.f[i], k4.f[i])))),
     w |-> Map3(LAMBDA i : Map3(LAMBDA j :
               FAdd(w[i][j],
                    FMul(d6, Weighted(k1.g[i][j], k2.g[i][j],
                                      k3.g[i][j], k4.g[i][j])))))]

\* rk4_tangent from the endpoint stage on.
tangent_from_k3(c, s, w, dt, k1, k2, k3) ==
    tangent_combine(s, w, FDiv(dt, Six), k1, k2, k3,
                    slopes(c, stage_point(s, w, dt, k3)))

\* rk4_tangent from the second midpoint on.
tangent_from_k2(c, s, w, dt, k1, k2) ==
    tangent_from_k3(c, s, w, dt, k1, k2,
                    slopes(c, stage_point(s, w, FMul(Half, dt), k2)))

\* rk4_tangent from the first midpoint on.
tangent_from_k1(c, s, w, dt, k1) ==
    tangent_from_k2(c, s, w, dt, k1,
                    slopes(c, stage_point(s, w, FMul(Half, dt), k1)))

\* One RK4 step of the state together with the three tangent vectors.
rk4_tangent(c, s, w, dt) ==
    tangent_from_k1(c, s, w, dt, slopes(c, [s |-> s, w |-> w]))

\* a scaled to unit length when its length n is > 0.0, else a itself.
Normalized(a, n) == IF FGt(n, Zero) THEN scale(a, FDiv(One, n)) ELSE a

\* The length n of u, and u normalized.
unit(u) == [n |-> norm(u), v |-> Normalized(u, norm(u))]

\* The end of gram_schmidt: the vectors and the lengths before normalization.
gs_result(a, b, c) == [w |-> V3(a.v, b.v, c.v), norms |-> V3(a.n, b.n, c.n)]

\* gram_schmidt from the third vector on.
gs_third(w, a, b) ==
    gs_result(a, b,
              unit(sub(sub(w[2], scale(a.v, dot(w[2], a.v))),
                       scale(b.v, dot(w[2], b.v)))))

\* gram_schmidt from the second vector on.
gs_second(w, a) ==
    gs_third(w, a, unit(sub(w[1], scale(a.v, dot(w[1], a.v)))))

\* The orthonormalized vectors and the three lengths before normalization.
gram_schmidt(w) == gs_second(w, unit(w[0]))

\* The descending order of kaplan_yorke's comparator, b.partial_cmp(a) with
\* an incomparable pair taken as Equal: x goes before y only when x > y.
RECURSIVE InsertDesc(_, _)
\* Stable insertion of x into the sorted sequence q.
InsertDesc(q, x) ==
    IF q = <<>> THEN <<x>>
    ELSE IF FGt(x, Head(q)) THEN <<x>> \o q
    ELSE <<Head(q)>> \o InsertDesc(Tail(q), x)

\* Mutation of SortDesc: the exponents are left in the order given.
SortDesc_unsorted(spec) == spec

SortDesc(spec) ==
    LET q == InsertDesc(InsertDesc(<<spec[0]>>, spec[1]), spec[2])
    IN  V3(q[1], q[2], q[3])

RECURSIVE ky_from_signed(_, _, _)
\* Mutation of ky_from: the partial sum is divided by l, not by l.abs().
ky_from_signed(sorted, j, sum) ==
    IF j < 3
    THEN LET l == sorted[j]
             sum1 == FAdd(sum, l)
         IN  IF FLt(sum1, Zero)
             THEN IF FLt(FAbs(l), Fl(1, -12))
                  THEN Fl(j, 0)
                  ELSE FAdd(Fl(j, 0), FDiv(FSub(sum1, l), l))
             ELSE ky_from_signed(sorted, j + 1, sum1)
    ELSE Fl(3, 0)

RECURSIVE ky_from(_, _, _)
\* The loop of kaplan_yorke from index j with the running sum.
ky_from(sorted, j, sum) ==
    IF j < 3
    THEN LET l == sorted[j]
             sum1 == FAdd(sum, l)
         IN  IF FLt(sum1, Zero)
             THEN IF FLt(FAbs(l), Fl(1, -12))
                  THEN Fl(j, 0)
                  ELSE FAdd(Fl(j, 0), FDiv(FSub(sum1, l), FAbs(l)))
             ELSE ky_from(sorted, j + 1, sum1)
    ELSE Fl(3, 0)

kaplan_yorke(spec) == ky_from(SortDesc(spec), 0, Zero)

-----------------------------------------------------------------------------
(* classify.rs: thresholds. *)

DIV_THRESH == Fl(1, 6)
FP_VAR == Fl(1, -4)
CHAOS_THRESH == Fl(1, -2)
DT == Fl(5, -3)

\* The divergence bounds of max_lyapunov and full_spectrum.
TransientBound == Fl(1, 8)
StepBound == Fl(1, 6)

-----------------------------------------------------------------------------
(* The coefficient vectors the routines are run on. *)

\* dx/dt = k*x, dy/dt = -y, dz/dt = -z
GrowX(k) == CoeffsOf((1 :> k) @@ (12 :> Fl(-1, 0)) @@ (23 :> Fl(-1, 0)))

\* dx/dt = a*x + w*y, dy/dt = -w*x + a*y, dz/dt = 0
Spiral(a, w) == CoeffsOf((1 :> a) @@ (2 :> w) @@ (11 :> FNeg(w)) @@ (12 :> a))

Systems ==
    [ decay    |-> CoeffsOf((1 :> Fl(-1, 0)) @@ (12 :> Fl(-1, 0)) @@ (23 :> Fl(-1, 0))),
      lorenz   |-> lorenz_coeffs(Fl(10, 0), Fl(28, 0), Fl(2667, -3)),
      rotate   |-> Spiral(Zero, Fl(200, 0)),
      spiral   |-> Spiral(Fl(20, 0), Fl(200, 0)),
      grow350  |-> GrowX(Fl(350, 0)),
      grow600  |-> GrowX(Fl(600, 0)),
      grow2000 |-> GrowX(Fl(2000, 0)),
      grow2e4  |-> GrowX(Fl(2, 4)),
      square   |-> CoeffsOf((4 :> Fl(8, 2)) @@ (12 :> Fl(-1, 0)) @@ (23 :> Fl(-1, 0))),
      stiffy   |-> CoeffsOf((12 :> Fl(1, 12))),
      stiff2e6 |-> CoeffsOf((1 :> Fl(-1, 0)) @@ (12 :> Fl(2, 6)) @@ (23 :> Fl(-1, 0))) ]

SystemNames == DOMAIN Systems

-----------------------------------------------------------------------------
(* State. *)

VARIABLES
    entry,  \* the routine that was called: classify, full_spectrum, max_lyapunov
    sys,    \* the name (in Systems) of the coefficient vector c it was called with
    cl,     \* the frame of classify
    fs,     \* the frame of full_spectrum
    ml,     \* the frame of max_lyapunov
    ky,     \* kaplan_yorke applied to a spectrum: argument and result
    od,     \* rhs and jacobian applied to a state: arguments and results
    it,     \* the frames of integrate and integrate_traj, called with the same arguments
    ct      \* the catalog directory, the entries saved into it and what load_all returned

vars == <<entry, sys, cl, fs, ml, ky, od, it, ct>>

C == Systems[sys]

V3Zero == V3(Zero, Zero, Zero)

\* The Option<LyapData> results.
None == [some |-> FALSE, spectrum |-> V3Zero, ky_dim |-> Zero]
Some(spectrum, ky_dim) == [some |-> TRUE, spectrum |-> spectrum, ky_dim |-> ky_dim]

\* Frames of routines that were not called. The fields r2t, r2s, norms, ckpts,
\* w0, straj and vtraj record what the run computed and do not influence it.
FsIdle ==
    [pc |-> "idle", s0 |-> V3Zero, dt |-> Zero, transient |-> 0, steps |-> 0,
     renorm_interval |-> 0, s |-> V3Zero, ti |-> 0, w |-> StdBasis,
     sums |-> V3Zero, count |-> 0, step |-> 0, ret |-> None,
     r2t |-> <<>>, r2s |-> <<>>, norms |-> <<>>, ckpts |-> <<>>, w0 |-> StdBasis]

ClIdle ==
    [pc |-> "idle", s |-> V3Zero, traj_s |-> V3Zero, mean |-> V3Zero,
     var |-> V3Zero, i |-> 0, total_var |-> Zero, verdict |-> "none",
     data |-> None,
     r2t |-> <<>>, r2s |-> <<>>, straj |-> <<>>, vtraj |-> <<>>]

MlIdle ==
    [pc |-> "idle", s0 |-> V3Zero, dt |-> Zero, transient |-> 0, steps |-> 0,
     s |-> V3Zero, ti |-> 0, w |-> V3Zero, sum |-> Zero, i |-> 0,
     ret |-> [lyap |-> Zero, ok |-> FALSE],
     r2t |-> <<>>, r2s |-> <<>>, norms |-> <<>>]

KyIdle == [pc |-> "idle", spec |-> V3Zero, sorted |-> V3Zero, out |-> Zero]

OdIdle == [pc |-> "idle", c |-> CoeffsOf(<<>>), s |-> V3Zero,
           j |-> V3(V3Zero, V3Zero, V3Zero), f |-> V3Zero,
           fplus |-> V3(V3Zero, V3Zero, V3Zero),
           fminus |-> V3(V3Zero, V3Zero, V3Zero)]

\* integrate's s and loop counter, integrate_traj's s, loop counter and traj.
ItIdle ==
    [s0 |-> V3Zero, dt |-> Zero, n |-> 0,
     ipc |-> "idle", is |-> V3Zero, ii |-> 0, iret |-> V3Zero,
     tpc |-> "idle", ts |-> V3Zero, ti |-> 0, traj |-> <<>>, tret |-> <<>>]

\* No catalog directory, nothing saved, nothing loaded.
CtIdle ==
    [pc |-> "idle", exists |-> FALSE, files |-> {}, saved |-> <<>>,
     loaded |-> <<>>]

\* The frame of full_spectrum(c, s0, dt, transient, steps, renorm_interval)
\* on entry (lyapunov.rs:241).
FsEnter(s0, dt, transient, steps, renorm_interval) ==
    [FsIdle EXCEPT !.pc = "transient", !.s0 = s0, !.dt = dt,
                   !.transient = transient, !.steps = steps,
                   !.renorm_interval = renorm_interval, !.s = s0]

\* The frame of max_lyapunov(c, s0, dt, transient, steps) on entry.
MlEnter(s0, dt, transient, steps) ==
    [MlIdle EXCEPT !.pc = "transient", !.s0 = s0, !.dt = dt,
                   !.transient = transient, !.steps = steps, !.s = s0]

\* classify's s0 (classify.rs:26).
ClassifyS0 == V3(Fl(1, -1), Fl(1, -1), Fl(1, -1))

\* The frame of classify(c) on entry.
ClEnter == [ClIdle EXCEPT !.pc = "transient", !.s = ClassifyS0]

\* The initial states a direct call of the Lyapunov routines is made with.
CallS0 == {ClassifyS0, V3Zero}

-----------------------------------------------------------------------------
(* classify *)

\* Mutation of Escaped: the test for a non-finite radius is left out.
Escaped_magnitude_only(r2) == FGt(r2, DIV_THRESH)

\* r2 > DIV_THRESH || !r2.is_finite()
Escaped(r2) == FGt(r2, DIV_THRESH) \/ ~is_finite(r2)

\* classify.rs:30-36, one iteration of the transient loop.
ClTransientStep ==
    /\ cl.pc = "transient"
    /\ cl.i < TRANSIENT
    /\ \E s1 \in {rk4_step(C, cl.s, DT)} : \E r2 \in {R2(s1)} :
          cl' = IF Escaped(r2)
                THEN [cl EXCEPT !.s = s1, !.r2t = Append(@, r2),
                                !.verdict = "Divergent", !.pc = "done"]
                ELSE [cl EXCEPT !.s = s1, !.r2t = Append(@, r2), !.i = @ + 1]
    /\ UNCHANGED <<entry, sys, fs, ml, ky, od, it, ct>>

\* classify.rs:38-42, the transient loop is over.
ClTransientExit ==
    /\ cl.pc = "transient"
    /\ cl.i = TRANSIENT
    /\ cl' = [cl EXCEPT !.mean = V3Zero, !.var = V3Zero, !.traj_s = cl.s,
                        !.i = 0, !.pc = "stats"]
    /\ UNCHANGED <<entry, sys, fs, ml, ky, od, it, ct>>

\* classify.rs:43-54, one iteration of the statistics loop.
ClStatsStep ==
    /\ cl.pc = "stats"
    /\ cl.i < CLASSIFY_STEPS
    /\ \E t1 \in {rk4_step(C, cl.traj_s, DT)} : \E r2 \in {R2(t1)} :
          cl' = IF Escaped(r2)
                THEN [cl EXCEPT !.traj_s = t1, !.r2s = Append(@, r2),
                                !.straj = Append(@, t1),
                                !.verdict = "Divergent", !.pc = "done"]
                ELSE [cl EXCEPT !.traj_s = t1, !.r2s = Append(@, r2),
                                !.straj = Append(@, t1),
                                !.mean = Map3(LAMBDA i : FAdd(cl.mean[i], t1[i])),
                                !.i = @ + 1]
    /\ UNCHANGED <<entry, sys, fs, ml, ky, od, it, ct>>

\* Mutation of ClStatsExit: the variance pass goes on from the last state of
\* the statistics pass.
ClStatsExit_continue ==
    /\ cl.pc = "stats"
    /\ cl.i = CLASSIFY_STEPS
    /\ cl' = [cl EXCEPT
                !.mean = Map3(LAMBDA i : FDiv(cl.mean[i], Fl(CLASSIFY_STEPS, 0))),
                !.i = 0, !.pc = "variance"]
    /\ UNCHANGED <<entry, sys, fs, ml, ky, od, it, ct>>

\* classify.rs:55-60, the means, and the restart of the variance pass.
ClStatsExit ==
    /\ cl.pc = "stats"
    /\ cl.i = CLASSIFY_STEPS
    /\ cl' = [cl EXCEPT
                !.mean = Map3(LAMBDA i : FDiv(cl.mean[i], Fl(CLASSIFY_STEPS, 0))),
                !.traj_s = cl.s, !.i = 0, !.pc = "variance"]
    /\ UNCHANGED <<entry, sys, fs, ml, ky, od, it, ct>>

\* classify.rs:61-67, one iteration of the variance loop.
ClVarianceStep ==
    /\ cl.pc = "variance"
    /\ cl.i < CLASSIFY_STEPS
    /\ \E t1 \in {rk4_step(C, cl.traj_s, DT)} :
          cl' = [cl EXCEPT
                   !.traj_s = t1, !.vtraj = Append(@, t1),
                   !.var = Map3(LAMBDA i :
                              LET d == FSub(t1[i], cl.mean[i])
                              IN  FAdd(cl.var[i], FMul(d, d))),
                   !.i = @ + 1]
    /\ UNCHANGED <<entry, sys, fs, ml, ky, od, it, ct>>

\* (var[0] + var[1] + var[2]) / n as f64
TotalVar(var) ==
    FDiv(FAdd(FAdd(var[0], var[1]), var[2]), Fl(CLASSIFY_STEPS, 0))

\* Mutation of ClVarianceExit: the spectrum is computed before the
\* fixed-point test is looked at.
ClVarianceExit_eager ==
    /\ cl.pc = "variance"
    /\ cl.i = CLASSIFY_STEPS
    /\ cl' = [cl EXCEPT !.total_var = TotalVar(cl.var), !.pc = "spectrum"]
    /\ fs' = FsEnter(ClassifyS0, DT, TRANSIENT, LYAP_STEPS, RENORM)
    /\ UNCHANGED <<entry, sys, ml, ky, od, it, ct>>

\* classify.rs:68-77, the fixed-point test, else the call of full_spectrum.
ClVarianceExit ==
    /\ cl.pc = "variance"
    /\ cl.i = CLASSIFY_STEPS
    /\ \E total_var \in {TotalVar(cl.var)} :
          IF FLt(total_var, FP_VAR)
          THEN /\ cl' = [cl EXCEPT !.total_var = total_var,
                                   !.verdict = "FixedPoint", !.pc = "done"]
               /\ fs' = fs
          ELSE /\ cl' = [cl EXCEPT !.total_var = total_var, !.pc = "spectrum"]
               /\ fs' = FsEnter(ClassifyS0, DT, TRANSIENT, LYAP_STEPS, RENORM)
    /\ UNCHANGED <<entry, sys, ml, ky, od, it, ct>>

\* Mutation of ClSpectral: the second exponent is compared with the threshold.
ClSpectral_second ==
    /\ cl.pc = "spectrum"
    /\ fs.pc = "done"
    /\ cl' = IF ~fs.ret.some
             THEN [cl EXCEPT !.verdict = "Divergent", !.pc = "done"]
             ELSE IF FGt(fs.ret.spectrum[1], CHAOS_THRESH)
             THEN [cl EXCEPT !.verdict = "Chaotic", !.data = fs.ret, !.pc = "done"]
             ELSE [cl EXCEPT !.verdict = "Cycle", !.pc = "done"]
    /\ UNCHANGED <<entry, sys, fs, ml, ky, od, it, ct>>

\* classify.rs:78-86, the match on what full_spectrum returned.
ClSpectral ==
    /\ cl.pc = "spectrum"
    /\ fs.pc = "done"
    /\ cl' = IF ~fs.ret.some
             THEN [cl EXCEPT !.verdict = "Divergent", !.pc = "done"]
             ELSE IF FGt(fs.ret.spectrum[0], CHAOS_THRESH)
             THEN [cl EXCEPT !.verdict = "Chaotic", !.data = fs.ret, !.pc = "done"]
             ELSE [cl EXCEPT !.verdict = "Cycle", !.pc = "done"]
    /\ UNCHANGED <<entry, sys, fs, ml, ky, od, it, ct>>

-----------------------------------------------------------------------------
(* full_spectrum *)

\* lyapunov.rs:242-248, one iteration of the transient loop.
FsTransientStep ==
    /\ fs.pc = "transient"
    /\ fs.ti < fs.transient
    /\ \E s1 \in {rk4_step(C, fs.s, fs.dt)} : \E r2 \in {R2(s1)} :
          fs' = IF FGt(r2, TransientBound)
                THEN [fs EXCEPT !.s = s1, !.r2t = Append(@, r2),
                                !.ret = None, !.pc = "done"]
                ELSE [fs EXCEPT !.s = s1, !.r2t = Append(@, r2), !.ti = @ + 1]
    /\ UNCHANGED <<entry, sys, cl, ml, ky, od, it, ct>>

\* lyapunov.rs:249-256, the tangent set and the accumulators.
FsTransientExit ==
    /\ fs.pc = "transient"
    /\ fs.ti = fs.transient
    /\ fs' = [fs EXCEPT !.w = StdBasis, !.w0 = StdBasis, !.sums = V3Zero,
                        !.count = 0, !.step = 0, !.pc = "steps"]
    /\ UNCHANGED <<entry, sys, cl, ml, ky, od, it, ct>>

\* Mutation of GoodNorm: the test for a non-finite length is left out.
GoodNorm_positive_only(n) == FGt(n, Zero)

\* norms[i] > 0.0 && norms[i].is_finite()
GoodNorm(n) == FGt(n, Zero) /\ is_finite(n)

RECURSIVE AddLogs(_, _, _)
\* lyapunov.rs:267-275, the loop over the three lengths from index i: the
\* sums as they stand when it ends, and whether it ended by the return.
AddLogs(sums, norms, i) ==
    IF i < 3
    THEN IF GoodNorm(norms[i])
         THEN AddLogs([sums EXCEPT ![i] = FAdd(@, FLn(norms[i]))], norms, i + 1)
         ELSE [ok |-> FALSE, sums |-> sums]
    ELSE [ok |-> TRUE, sums |-> sums]

\* Mutation of FsCheckpoint: a checkpoint before every step that is a multiple
\* of the interval, counted from 0.
FsCheckpoint_early(step, renorm_interval) == step % renorm_interval = 0

\* (step + 1) % renorm_interval == 0
FsCheckpoint(step, renorm_interval) == (step + 1) % renorm_interval = 0

\* r2 > bound || !r2.is_finite()
FsDiverged(r2) == FGt(r2, StepBound) \/ ~is_finite(r2)

\* lyapunov.rs:266-276, a checkpoint after the step to (s, w) with squared
\* radius r2: gs is what gram_schmidt made of w, logs what the loop over its
\* lengths did.
FsRenorm(s, r2, gs, logs) ==
    IF ~logs.ok
    THEN [fs EXCEPT !.s = s, !.w = gs.w, !.r2s = Append(@, r2),
                    !.norms = Append(@, gs.norms),
                    !.ckpts = Append(@, fs.step + 1),
                    !.sums = logs.sums, !.ret = None, !.pc = "done"]
    ELSE [fs EXCEPT !.s = s, !.w = gs.w, !.r2s = Append(@, r2),
                    !.norms = Append(@, gs.norms),
                    !.ckpts = Append(@, fs.step + 1),
                    !.sums = logs.sums, !.count = @ + 1, !.step = @ + 1]

\* lyapunov.rs:257-278, one iteration of the co-integration loop.
FsStep ==
    /\ fs.pc = "steps"
    /\ fs.step < fs.steps
    /\ \E t \in {rk4_tangent(C, fs.s, fs.w, fs.dt)} : \E r2 \in {R2(t.s)} :
          IF FsDiverged(r2)
          THEN fs' = [fs EXCEPT !.s = t.s, !.w = t.w, !.r2s = Append(@, r2),
                         !.ret = None, !.pc = "done"]
          ELSE IF fs.renorm_interval = 0
          THEN \* the remainder by zero panics
               fs' = [fs EXCEPT !.s = t.s, !.w = t.w, !.r2s = Append(@, r2),
                         !.pc = "panic"]
          ELSE IF FsCheckpoint(fs.step, fs.renorm_interval)
          THEN \E gs \in {gram_schmidt(t.w)} :
                  \E logs \in {AddLogs(fs.sums, gs.norms, 0)} :
                      fs' = FsRenorm(t.s, r2, gs, logs)
          ELSE fs' = [fs EXCEPT !.s = t.s, !.w = t.w, !.r2s = Append(@, r2),
                         !.step = @ + 1]
    /\ UNCHANGED <<entry, sys, cl, ml, ky, od, it, ct>>

\* count as f64 * renorm_interval as f64 * dt
SpectrumTime(count, renorm_interval, dt) ==
    FMul(FMul(Fl(count, 0), Fl(renorm_interval, 0)), dt)

\* Mutation of FsFinish: the test count == 0 is left out.
FsFinish_unguarded ==
    /\ fs.pc = "steps"
    /\ fs.step = fs.steps
    /\ \E t \in {SpectrumTime(fs.count, fs.renorm_interval, fs.dt)} :
          \E spectrum \in {Map3(LAMBDA i : FDiv(fs.sums[i], t))} :
              fs' = [fs EXCEPT !.ret = Some(spectrum, kaplan_yorke(spectrum)),
                               !.pc = "done"]
    /\ UNCHANGED <<entry, sys, cl, ml, ky, od, it, ct>>

\* lyapunov.rs:279-291, after the loop.
FsFinish ==
    /\ fs.pc = "steps"
    /\ fs.step = fs.steps
    /\ IF fs.count = 0
       THEN fs' = [fs EXCEPT !.ret = None, !.pc = "done"]
       ELSE \E t \in {SpectrumTime(fs.count, fs.renorm_interval, fs.dt)} :
               \E spectrum \in {Map3(LAMBDA i : FDiv(fs.sums[i], t))} :
                   fs' = [fs EXCEPT !.ret = Some(spectrum, kaplan_yorke(spectrum)),
                                    !.pc = "done"]
    /\ UNCHANGED <<entry, sys, cl, ml, ky, od, it, ct>>

-----------------------------------------------------------------------------
(* max_lyapunov *)

\* lyapunov.rs:192-197, one iteration of the transient loop.
MlTransientStep ==
    /\ ml.pc = "transient"
    /\ ml.ti < ml.transient
    /\ \E s1 \in {rk4_step(C, ml.s, ml.dt)} : \E r2 \in {R2(s1)} :
          ml' = IF FGt(r2, TransientBound)
                THEN [ml EXCEPT !.s = s1, !.r2t = Append(@, r2),
                                !.ret = [lyap |-> PInf, ok |-> FALSE],
                                !.pc = "done"]
                ELSE [ml EXCEPT !.s = s1, !.r2t = Append(@, r2), !.ti = @ + 1]
    /\ UNCHANGED <<entry, sys, cl, fs, ky, od, it, ct>>

\* lyapunov.rs:198-200, the tangent vector and the sum.
MlTransientExit ==
    /\ ml.pc = "transient"
    /\ ml.ti = ml.transient
    /\ ml' = [ml EXCEPT !.w = V3(One, Zero, Zero), !.sum = Zero, !.i = 0,
                        !.pc = "steps"]
    /\ UNCHANGED <<entry, sys, cl, fs, ky, od, it, ct>>

\* Mutation of MlDiverged: the bound of the transient is used.
MlDiverged_transient_bound(r2) == FGt(r2, TransientBound)

\* r2 > bound
MlDiverged(r2) == FGt(r2, StepBound)

\* w + dt * (j * w), the Euler step of the tangent vector.
MlTangent(j, w, dt) ==
    Map3(LAMBDA i : FAdd(w[i], FMul(dt, mat_vec(j, w)[i])))

\* lyapunov.rs:201-227, one iteration of the main loop.
MlStep ==
    /\ ml.pc = "steps"
    /\ ml.i < ml.steps
    /\ \E sn \in {rk4_step(C, ml.s, ml.dt)} :
       \E w1 \in {MlTangent(jacobian(C, ml.s), ml.w, ml.dt)} :
       \E r2 \in {R2(sn)} : \E n \in {norm(w1)} :
          ml' = IF MlDiverged(r2)
                THEN [ml EXCEPT !.s = sn, !.w = w1, !.r2s = Append(@, r2),
                                !.ret = [lyap |-> PInf, ok |-> FALSE],
                                !.pc = "done"]
                ELSE IF FGt(n, Zero) /\ is_finite(n)
                THEN [ml EXCEPT !.s = sn, !.r2s = Append(@, r2),
                                !.norms = Append(@, n),
                                !.sum = FAdd(@, FLn(n)),
                                !.w = scale(w1, FDiv(One, n)), !.i = @ + 1]
                ELSE [ml EXCEPT !.s = sn, !.w = w1, !.r2s = Append(@, r2),
                                !.norms = Append(@, n),
                                !.ret = [lyap |-> NaN, ok |-> FALSE],
                                !.pc = "done"]
    /\ UNCHANGED <<entry, sys, cl, fs, ky, od, it, ct>>

\* lyapunov.rs:228-229, after the loop.
MlFinish ==
    /\ ml.pc = "steps"
    /\ ml.i = ml.steps
    /\ ml' = [ml EXCEPT
                !.ret = [lyap |-> FDiv(ml.sum, FMul(Fl(ml.steps, 0), ml.dt)),
                         ok |-> TRUE],
                !.pc = "done"]
    /\ UNCHANGED <<entry, sys, cl, fs, ky, od, it, ct>>

-----------------------------------------------------------------------------
(* The calls. *)

Init ==
    /\ sys \in SystemNames
    /\ entry \in {"classify", "full_spectrum", "max_lyapunov"}
    /\ cl = IF entry = "classify" THEN ClEnter ELSE ClIdle
    /\ IF entry = "full_spectrum"
       THEN \E s0 \in CallS0, transient \in 0..MaxTransient,
               steps \in 0..MaxSteps, renorm_interval \in 0..MaxRenorm :
                fs = FsEnter(s0, DT, transient, steps, renorm_interval)
       ELSE fs = FsIdle
    /\ IF entry = "max_lyapunov"
       THEN \E s0 \in CallS0, transient \in 0..MaxTransient,
               steps \in 0..MaxSteps :
                ml = MlEnter(s0, DT, transient, steps)
       ELSE ml = MlIdle
    /\ ky = KyIdle
    /\ od = OdIdle
    /\ it = ItIdle
    /\ ct = CtIdle

Next ==
    \/ ClTransientStep
    \/ ClTransientExit
    \/ ClStatsStep
    \/ ClStatsExit
    \/ ClVarianceStep
    \/ ClVarianceExit
    \/ ClSpectral
    \/ FsTransientStep
    \/ FsTransientExit
    \/ FsStep
    \/ FsFinish
    \/ MlTransientStep
    \/ MlTransientExit
    \/ MlStep
    \/ MlFinish

Spec == Init /\ [][Next]_vars

-----------------------------------------------------------------------------
(* kaplan_yorke on its own. *)

\* The exponents the spectra are drawn from.
KyValues ==
    {Fl(-5, 0), Fl(-15, -1), Fl(-1, 0), Fl(-5, -1), Fl(-1, -13), Zero,
     Fl(5, -1), Fl(9999, -4), Fl(1, 0), Fl(2, 0), Fl(55, -1), Fl(-9999, 0)}

KyInit ==
    /\ sys = "decay"
    /\ entry = "kaplan_yorke"
    /\ cl = ClIdle
    /\ fs = FsIdle
    /\ ml = MlIdle
    /\ \E a \in KyValues, b \in KyValues, c \in KyValues :
          ky = [KyIdle EXCEPT !.pc = "call", !.spec = V3(a, b, c)]
    /\ od = OdIdle
    /\ it = ItIdle
    /\ ct = CtIdle

\* lyapunov.rs:295-312
KyCall ==
    /\ ky.pc = "call"
    /\ ky' = [ky EXCEPT !.sorted = SortDesc(ky.spec),
                        !.out = kaplan_yorke(ky.spec), !.pc = "done"]
    /\ UNCHANGED <<entry, sys, cl, fs, ml, od, it, ct>>

KyNext == KyCall

SpecKY == KyInit /\ [][KyNext]_vars

-----------------------------------------------------------------------------
(* rhs and jacobian on their own, on integer coefficients and states. *)

\* The coefficient vector with the integer n(i) at index i.
IntCoeffs(n(_)) == [i \in 0..(NCOEFFS - 1) |-> Fl(n(i), 0)]

OdCoeffs ==
    {IntCoeffs(LAMBDA i : IF i = p THEN 1 ELSE 0) : p \in 0..(NCOEFFS - 1)}
    \cup {IntCoeffs(LAMBDA i : ((i * a + b) % 7) - 3) : a \in 1..3, b \in 0..2}
    \cup {lorenz_coeffs(Fl(10, 0), Fl(28, 0), Fl(3, 0))}

Coords == (-MaxCoord)..MaxCoord

OdInit ==
    /\ sys = "decay"
    /\ entry = "jacobian"
    /\ cl = ClIdle
    /\ fs = FsIdle
    /\ ml = MlIdle
    /\ ky = KyIdle
    /\ it = ItIdle
    /\ ct = CtIdle
    /\ \E c \in OdCoeffs, x \in Coords, y \in Coords, z \in Coords :
          od = [OdIdle EXCEPT !.pc = "call", !.c = c,
                              !.s = V3(Fl(x, 0), Fl(y, 0), Fl(z, 0))]

\* s with 1.0 * sg added to coordinate j.
Shifted(s, j, sg) == [s EXCEPT ![j] = FAdd(@, Fl(sg, 0))]

\* ode.rs:52-90: rhs and jacobian at s, and rhs one unit away along each axis.
OdEval ==
    /\ od.pc = "call"
    /\ od' = [od EXCEPT
                !.f = rhs(od.c, od.s),
                !.j = jacobian(od.c, od.s),
                !.fplus = Map3(LAMBDA j : rhs(od.c, Shifted(od.s, j, 1))),
                !.fminus = Map3(LAMBDA j : rhs(od.c, Shifted(od.s, j, -1))),
                !.pc = "done"]
    /\ UNCHANGED <<entry, sys, cl, fs, ml, ky, it, ct>>

OdNext == OdEval

SpecOde == OdInit /\ [][OdNext]_vars

-----------------------------------------------------------------------------
(* integrate and integrate_traj, called with the same c, s0, dt and n. *)

\* The time steps of the calls: classify's and the one of search.rs.
ItSteps == {DT, Fl(1, -2)}

\* The initial states of the calls.
ItS0 == CallS0 \cup {V3(Fl(1, 0), Fl(1, 0), Fl(1, 0))}

\* ode.rs:134 and ode.rs:149-151: both routines were entered, traj holds s0.
ItInit ==
    /\ sys \in SystemNames
    /\ entry = "integrate"
    /\ cl = ClIdle
    /\ fs = FsIdle
    /\ ml = MlIdle
    /\ ky = KyIdle
    /\ od = OdIdle
    /\ ct = CtIdle
    /\ \E s0 \in ItS0, dt \in ItSteps, n \in 0..MaxN :
          it = [ItIdle EXCEPT !.s0 = s0, !.dt = dt, !.n = n,
                              !.ipc = "loop", !.is = s0,
                              !.tpc = "loop", !.ts = s0, !.traj = <<s0>>]

\* ode.rs:135-137, one iteration of integrate's loop.
IntegrateStep ==
    /\ it.ipc = "loop"
    /\ it.ii < it.n
    /\ it' = [it EXCEPT !.is = rk4_step(C, it.is, it.dt), !.ii = @ + 1]
    /\ UNCHANGED <<entry, sys, cl, fs, ml, ky, od, ct>>

\* ode.rs:138, integrate returns s.
IntegrateReturn ==
    /\ it.ipc = "loop"
    /\ it.ii = it.n
    /\ it' = [it EXCEPT !.iret = it.is, !.ipc = "done"]
    /\ UNCHANGED <<entry, sys, cl, fs, ml, ky, od, ct>>

\* Mutation of TrajStep: the state is pushed before it is advanced.
TrajStep_stale ==
    /\ it.tpc = "loop"
    /\ it.ti < it.n
    /\ it' = [it EXCEPT !.traj = Append(@, it.ts),
                        !.ts = rk4_step(C, it.ts, it.dt), !.ti = @ + 1]
    /\ UNCHANGED <<entry, sys, cl, fs, ml, ky, od, ct>>

\* ode.rs:152-155, one iteration of integrate_traj's loop.
TrajStep ==
    /\ it.tpc = "loop"
    /\ it.ti < it.n
    /\ \E s1 \in {rk4_step(C, it.ts, it.dt)} :
          it' = [it EXCEPT !.ts = s1, !.traj = Append(@, s1), !.ti = @ + 1]
    /\ UNCHANGED <<entry, sys, cl, fs, ml, ky, od, ct>>

\* ode.rs:156, integrate_traj returns traj.
TrajReturn ==
    /\ it.tpc = "loop"
    /\ it.ti = it.n
    /\ it' = [it EXCEPT !.tret = it.traj, !.tpc = "done"]
    /\ UNCHANGED <<entry, sys, cl, fs, ml, ky, od, ct>>

ItNext ==
    \/ IntegrateStep
    \/ IntegrateReturn
    \/ TrajStep
    \/ TrajReturn

SpecIt == ItInit /\ [][ItNext]_vars

-----------------------------------------------------------------------------
(* catalog.rs *)

\* f64::to_bits: a different integer for every f64 of the model.
to_bits(v) ==
    IF v.k = "nan" THEN 510000
    ELSE IF v.k = "inf" THEN (IF v.m < 0 THEN 1500000 ELSE 500000)
    ELSE (IF v.m < 0 THEN 1000000 ELSE 0) + (v.e + EMax) * 10000 + Abs(v.m)

\* u64::hash into the DefaultHasher: the state after one more word. The
\* hasher's mixing is replaced by a multiply-and-add on HashMod values.
hasher_write(h, bits) == (h * 31 + bits) % HashMod

RECURSIVE hash_from(_, _, _)
\* catalog.rs:43-45, the loop from index i with the hasher in state h.
hash_from(c, i, h) ==
    IF i < NCOEFFS THEN hash_from(c, i + 1, hasher_write(h, to_bits(c[i])))
    ELSE h

\* catalog.rs:41-47; DefaultHasher::new() is the same state in every call.
coeff_hash(c) == hash_from(c, 0, 0)

\* catalog.rs:21-37, Entry::new.
Entry_new(coeffs, spectrum, ky_dim, traj, method) ==
    [id |-> coeff_hash(coeffs), coeffs |-> coeffs, spectrum |-> spectrum,
     ky_dim |-> ky_dim, trajectory |-> traj, method |-> method]

HexDigits ==
    <<"0", "1", "2", "3", "4", "5", "6", "7", "8", "9",
      "a", "b", "c", "d", "e", "f">>

RECURSIVE hex_padded(_, _)
\* format!("{:0kx}", id): the k lowest hexadecimal digits of id.
hex_padded(id, k) ==
    IF k = 0 THEN <<>>
    ELSE Append(hex_padded(id \div 16, k - 1), HexDigits[(id % 16) + 1])

\* catalog.rs:55-57, the file of the entry with this id.
path_of(id) == [stem |-> hex_padded(id, 16), ext |-> "json"]

\* serde_json writes a finite f64 as a number and a NaN or an infinity as
\* null.
json_f64(v) ==
    IF is_finite(v) THEN [t |-> "number", v |-> v] ELSE [t |-> "null", v |-> Zero]

json_v3(a) == [i \in 0..2 |-> json_f64(a[i])]

\* catalog.rs:58, serde_json::to_string_pretty(entry).
to_json(e) ==
    [id |-> e.id,
     coeffs |-> [i \in DOMAIN e.coeffs |-> json_f64(e.coeffs[i])],
     spectrum |-> json_v3(e.spectrum),
     ky_dim |-> json_f64(e.ky_dim),
     trajectory |-> [i \in DOMAIN e.trajectory |-> json_v3(e.trajectory[i])],
     method |-> e.method]

\* An f64 field is read from a number; null is not one.
reads_f64(x) == x.t = "number"

reads_v3(a) == \A i \in 0..2 : reads_f64(a[i])

\* catalog.rs:82-83, serde_json::from_str::<Entry>(&data) is Ok.
parses(j) ==
    /\ \A i \in DOMAIN j.coeffs : reads_f64(j.coeffs[i])
    /\ reads_v3(j.spectrum)
    /\ reads_f64(j.ky_dim)
    /\ \A i \in DOMAIN j.trajectory : reads_v3(j.trajectory[i])

\* The entry that from_str returns for a text that parses.
from_json(j) ==
    [id |-> j.id,
     coeffs |-> [i \in DOMAIN j.coeffs |-> j.coeffs[i].v],
     spectrum |-> [i \in 0..2 |-> j.spectrum[i].v],
     ky_dim |-> j.ky_dim.v,
     trajectory |->
        [i \in DOMAIN j.trajectory |-> [k \in 0..2 |-> j.trajectory[i][k].v]],
     method |-> j.method]

\* std::fs::write(path, data): the file is created or replaced.
fs_write(files, path, data) ==
    {f \in files : f.path # path} \cup {[path |-> path, data |-> data]}

RECURSIVE load_from(_, _, _)
\* catalog.rs:76-88, the loop over the directory items q from item i on.
load_from(q, i, entries) ==
    IF i > Len(q) THEN entries
    ELSE IF q[i].path.ext = "json" /\ parses(q[i].data)
         THEN load_from(q, i + 1, Append(entries, from_json(q[i].data)))
         ELSE load_from(q, i + 1, entries)

\* The orders std::fs::read_dir can give the files in.
ReadDir(files) ==
    {q \in [1..Cardinality(files) -> files] :
        \A i \in DOMAIN q : \A j \in DOMAIN q : (q[i] = q[j]) => (i = j)}

\* A file of the directory that save did not write: the text of an entry
\* under another extension.
Backup ==
    [path |-> [stem |-> <<"o", "l", "d">>, ext |-> "bak"],
     data |-> to_json(Entry_new(Systems["decay"], V3Zero, Zero, <<>>, "test"))]

\* The coefficient vectors of the saved entries.
CtSystems == {"decay", "lorenz", "rotate"}

\* The spectra of the saved entries.
CtSpectra == {V3(Fl(9, -1), Zero, Fl(-14, 0)), V3(NaN, Zero, Fl(-14, 0))}

\* The trajectory samples of the saved entries: none, a bounded one and one
\* that overflowed.
CtTrajs ==
    {<<>>, <<ClassifyS0, V3(Fl(1, 0), Fl(2, 0), Fl(3, 0))>>,
     <<ClassifyS0, V3(PInf, NaN, Zero)>>}

CtEntries ==
    {Entry_new(Systems[n], sp, Fl(206, -2), tr, "test") :
        n \in CtSystems, sp \in CtSpectra, tr \in CtTrajs}

\* The directory does not exist (catalog.rs:110) or holds no entries.
CtInit ==
    /\ sys = "decay"
    /\ entry = "catalog"
    /\ cl = ClIdle
    /\ fs = FsIdle
    /\ ml = MlIdle
    /\ ky = KyIdle
    /\ od = OdIdle
    /\ it = ItIdle
    /\ \E dir \in {[exists |-> FALSE, files |-> {}],
                   [exists |-> TRUE, files |-> {}],
                   [exists |-> TRUE, files |-> {Backup}]} :
          ct = [CtIdle EXCEPT !.pc = "ready", !.exists = dir.exists,
                              !.files = dir.files]

\* catalog.rs:50-66, save(dir, entry).
CtSave ==
    /\ ct.pc \in {"ready", "loaded"}
    /\ Len(ct.saved) < MaxSaves
    /\ \E e \in CtEntries :
          ct' = [ct EXCEPT !.exists = TRUE,
                           !.files = fs_write(@, path_of(e.id), to_json(e)),
                           !.saved = Append(@, e),
                           !.loaded = <<>>, !.pc = "ready"]
    /\ UNCHANGED <<entry, sys, cl, fs, ml, ky, od, it>>

\* catalog.rs:69-90, load_all(dir).
CtLoad ==
    /\ ct.pc = "ready"
    /\ \E q \in (IF ct.exists THEN ReadDir(ct.files) ELSE {<<>>}) :
          ct' = [ct EXCEPT !.loaded = load_from(q, 1, <<>>), !.pc = "loaded"]
    /\ UNCHANGED <<entry, sys, cl, fs, ml, ky, od, it>>

CtNext ==
    \/ CtSave
    \/ CtLoad

SpecCat == CtInit /\ [][CtNext]_vars

-----------------------------------------------------------------------------
(* Properties. *)

\* The last element of a non-empty sequence.
Last(q) == q[Len(q)]

\* A squared radius that is non-finite or above 1e6, in the words of the
\* claims: the escape condition of classify.
OutOfBound(r2) == r2.k # "fin" \/ FGt(r2, Fl(1, 6))

\* Some element of q satisfies P, and it is not the last one.
BadBeforeLast(q, P(_)) == \E i \in 1..Len(q) : i < Len(q) /\ P(q[i])

\* C1: in classify, a squared radius that exceeds the divergence bound or is
\* non-finite at a step of the transient or of the statistics phase ends the
\* call at that step with Divergent, and no later phase runs: nothing is
\* integrated after the escaping step, an escape in the transient leaves the
\* statistics, variance and spectral phases unrun, and an escape in the
\* statistics phase leaves the variance and spectral phases unrun.
C1_EscapeIsDivergent ==
    /\ ~BadBeforeLast(cl.r2t, OutOfBound)
    /\ ~BadBeforeLast(cl.r2s, OutOfBound)
    /\ (cl.r2t # <<>> /\ OutOfBound(Last(cl.r2t))) =>
          /\ cl.pc = "done" /\ cl.verdict = "Divergent"
          /\ Len(cl.r2t) <= TRANSIENT
          /\ cl.r2s = <<>> /\ cl.straj = <<>> /\ cl.vtraj = <<>>
          /\ fs.pc = "idle"
    /\ (cl.r2s # <<>> /\ OutOfBound(Last(cl.r2s))) =>
          /\ cl.pc = "done" /\ cl.verdict = "Divergent"
          /\ Len(cl.r2s) <= CLASSIFY_STEPS
          /\ cl.vtraj = <<>>
          /\ fs.pc = "idle"

\* C1 witness: classify has returned on a non-finite squared radius at the
\* second step of the statistics phase.
C1_Witness ==
    /\ cl.pc = "done"
    /\ Len(cl.r2s) = 2
    /\ ~is_finite(Last(cl.r2s))

\* C2: once classify has reached the spectral test, the verdict follows from
\* what full_spectrum returned alone: None gives Divergent, a first exponent
\* above 0.01 gives Chaotic carrying exactly the returned spectrum and
\* dimension, anything else gives Cycle.
C2_SpectralVerdict ==
    /\ (cl.pc = "spectrum") => cl.verdict = "none"
    /\ (cl.pc = "done" /\ fs.pc # "idle") =>
          /\ fs.pc = "done"
          /\ ~fs.ret.some => cl.verdict = "Divergent"
          /\ (fs.ret.some /\ FGt(fs.ret.spectrum[0], Fl(1, -2))) =>
                /\ cl.verdict = "Chaotic"
                /\ cl.data = fs.ret
          /\ (fs.ret.some /\ ~FGt(fs.ret.spectrum[0], Fl(1, -2))) =>
                cl.verdict = "Cycle"
    /\ cl.verdict = "Chaotic" =>
          /\ cl.data.some
          /\ FGt(cl.data.spectrum[0], Fl(1, -2))
    /\ cl.verdict = "Cycle" =>
          /\ fs.ret.some
          /\ ~FGt(fs.ret.spectrum[0], Fl(1, -2))
    /\ cl.verdict \in {"Chaotic", "Cycle"} => fs.pc = "done"

\* C2 witness: a Chaotic verdict whose second exponent is below the threshold.
C2_Witness ==
    /\ cl.verdict = "Chaotic"
    /\ FLt(cl.data.spectrum[1], Fl(1, -2))

RECURSIVE FSum(_)
\* The terms of q added one after the other to 0.0, first to last.
FSum(q) ==
    IF q = <<>> THEN Zero
    ELSE FAdd(FSum(SubSeq(q, 1, Len(q) - 1)), q[Len(q)])

\* The mean along axis i of the states of the sequence traj.
AxisMean(traj, i) ==
    FDiv(FSum([k \in 1..Len(traj) |-> traj[k][i]]), Fl(Len(traj), 0))

\* The sum along axis i of the squared deviations of the states of vtraj from
\* the mean of the states of traj.
AxisVariance(traj, vtraj, i) ==
    LET mu == AxisMean(traj, i)
    IN  FSum([k \in 1..Len(vtraj) |->
                 FMul(FSub(vtraj[k][i], mu), FSub(vtraj[k][i], mu))])

\* The per-axis variances of the statistics phase summed over the three axes
\* and divided by the number of statistics steps, strictly below 1e-4.
VarianceBelowThreshold ==
    LET v == FAdd(FAdd(AxisVariance(cl.straj, cl.vtraj, 0),
                       AxisVariance(cl.straj, cl.vtraj, 1)),
                  AxisVariance(cl.straj, cl.vtraj, 2))
    IN  FLt(FDiv(v, Fl(Len(cl.straj), 0)), Fl(1, -4))

\* classify has been through the transient and the statistics phase without
\* an escape and has taken the fixed-point decision.
PastFixedPointTest ==
    /\ cl.pc \in {"spectrum", "done"}
    /\ Len(cl.vtraj) = CLASSIFY_STEPS

\* C3: when neither the transient nor the statistics phase escaped, the
\* verdict is FixedPoint exactly when the variances summed over the axes and
\* divided by the statistics step count are strictly below 1e-4; a FixedPoint
\* verdict ends the call without full_spectrum being invoked, and classify
\* invokes full_spectrum only when that variance is not below the threshold.
C3_FixedPointTest ==
    /\ PastFixedPointTest =>
          /\ Len(cl.straj) = CLASSIFY_STEPS
          /\ cl.verdict = "FixedPoint" <=> VarianceBelowThreshold
          /\ VarianceBelowThreshold => (cl.pc = "done" /\ fs.pc = "idle")
          /\ ~VarianceBelowThreshold => fs.pc # "idle"
    /\ cl.verdict = "FixedPoint" => (PastFixedPointTest /\ fs.pc = "idle")
    /\ (entry = "classify" /\ fs.pc # "idle") =>
          (PastFixedPointTest /\ ~VarianceBelowThreshold)

\* C3 witness: a FixedPoint verdict on a trajectory that still moves.
C3_Witness ==
    /\ cl.verdict = "FixedPoint"
    /\ FGt(cl.total_var, Zero)


\* A squared radius above 1e8, the bound of the transient loops of
\* full_spectrum and max_lyapunov.
AboveTransientBound(r2) == FGt(r2, Fl(1, 8))

\* A squared radius above 1e6, the bound of the main loop of max_lyapunov.
AboveStepBound(r2) == FGt(r2, Fl(1, 6))

\* A length that is not both strictly positive and finite.
BadLength(n) == ~(n.k = "fin" /\ n.m > 0)

\* One of the three lengths of a checkpoint is not strictly positive and finite.
BadLengths(ns) == \E i \in 0..2 : BadLength(ns[i])

\* C4: full_spectrum returns Some only if every transient step kept the
\* squared radius within 1e8, each of the `steps` co-integration steps kept it
\* finite and within 1e6, and every checkpoint had three strictly positive
\* finite lengths; the first violation of any of these is the last thing the
\* call computes, it returns None there, and None carries no sums.
C4_NoPartialSpectrum ==
    /\ ~BadBeforeLast(fs.r2t, AboveTransientBound)
    /\ (fs.r2t # <<>> /\ AboveTransientBound(Last(fs.r2t))) =>
          /\ fs.pc = "done" /\ fs.ret = None
          /\ fs.r2s = <<>> /\ fs.norms = <<>>
    /\ ~BadBeforeLast(fs.r2s, OutOfBound)
    /\ (fs.r2s # <<>> /\ OutOfBound(Last(fs.r2s))) =>
          /\ fs.pc = "done" /\ fs.ret = None
          /\ Len(fs.norms) = fs.count
    /\ ~BadBeforeLast(fs.norms, BadLengths)
    /\ (fs.norms # <<>> /\ BadLengths(Last(fs.norms))) =>
          (fs.pc = "done" /\ fs.ret = None)
    /\ (fs.pc = "done" /\ ~fs.ret.some) => fs.ret = None
    /\ (fs.pc = "done" /\ fs.ret.some) =>
          /\ Len(fs.r2t) = fs.transient
          /\ \A i \in 1..Len(fs.r2t) :
                is_finite(fs.r2t[i]) /\ ~AboveTransientBound(fs.r2t[i])
          /\ Len(fs.r2s) = fs.steps
          /\ \A i \in 1..Len(fs.r2s) : ~OutOfBound(fs.r2s[i])
          /\ fs.norms # <<>>
          /\ \A i \in 1..Len(fs.norms) : ~BadLengths(fs.norms[i])

\* C4 witness: full_spectrum has returned None at a checkpoint whose second
\* length is infinite, after the logarithm of the first length was added to
\* its sum.
C4_Witness ==
    /\ fs.pc = "done" /\ ~fs.ret.some
    /\ fs.norms # <<>>
    /\ IsInf(Last(fs.norms)[1])
    /\ fs.sums[0] # Zero

\* The sum of the logarithms of the lengths q, added one after the other.
LogSum(q) == FSum([k \in 1..Len(q) |-> FLn(q[k])])

\* The lengths that max_lyapunov has logged and found good: all of them but a
\* bad last one.
GoodLengths(q) ==
    IF q # <<>> /\ BadLength(Last(q)) THEN SubSeq(q, 1, Len(q) - 1) ELSE q

\* C5: max_lyapunov ends by returning its flag. The flag is false as soon as
\* a squared radius exceeds the bound (1e8 in the transient, 1e6 afterwards)
\* or the tangent length is zero or non-finite; it is true only when all
\* `steps` steps were completed, each with the squared radius within the bound
\* and a strictly positive finite tangent length; the length of a diverging
\* step is not accumulated.
C5_FailureIsAFlag ==
    /\ ml.pc \in {"idle", "transient", "steps", "done"}
    /\ ~BadBeforeLast(ml.r2t, AboveTransientBound)
    /\ (ml.r2t # <<>> /\ AboveTransientBound(Last(ml.r2t))) =>
          /\ ml.pc = "done" /\ ~ml.ret.ok
          /\ ml.r2s = <<>>
    /\ ~BadBeforeLast(ml.r2s, AboveStepBound)
    /\ (ml.r2s # <<>> /\ AboveStepBound(Last(ml.r2s))) =>
          /\ ml.pc = "done" /\ ~ml.ret.ok
          /\ Len(ml.norms) = Len(ml.r2s) - 1
    /\ ~BadBeforeLast(ml.norms, BadLength)
    /\ (ml.norms # <<>> /\ BadLength(Last(ml.norms))) =>
          (ml.pc = "done" /\ ~ml.ret.ok)
    /\ ml.pc \in {"steps", "done"} => ml.sum = LogSum(GoodLengths(ml.norms))
    /\ (ml.pc = "done" /\ ml.ret.ok) =>
          /\ Len(ml.r2t) = ml.transient
          /\ \A i \in 1..Len(ml.r2t) : ~AboveTransientBound(ml.r2t[i])
          /\ Len(ml.r2s) = ml.steps
          /\ \A i \in 1..Len(ml.r2s) : ~AboveStepBound(ml.r2s[i])
          /\ Len(ml.norms) = ml.steps
          /\ \A i \in 1..Len(ml.norms) : ~BadLength(ml.norms[i])

\* C5 witness: max_lyapunov has returned flag false on a squared radius above
\* 1e6 at its second step or later, with a non-zero sum of logarithms.
C5_Witness ==
    /\ ml.pc = "done" /\ ~ml.ret.ok
    /\ Len(ml.r2s) >= 2
    /\ AboveStepBound(Last(ml.r2s))
    /\ ml.sum # Zero


\* Every component of the state s is finite.
FiniteState(s) == \A i \in 0..2 : is_finite(s[i])

\* C6: no routine returns a success result after an integration step has
\* produced a non-finite state component (which then stays non-finite to the
\* end of the call), and max_lyapunov never returns flag true with a
\* non-finite exponent, whatever `transient` and `steps` are.
C6_NoSilentNonFinite ==
    /\ (ml.pc = "done" /\ ml.ret.ok) =>
          (FiniteState(ml.s) /\ is_finite(ml.ret.lyap))
    /\ (fs.pc = "done" /\ fs.ret.some) => FiniteState(fs.s)
    /\ (cl.pc = "done" /\ cl.verdict # "Divergent") =>
          (FiniteState(cl.s) /\ FiniteState(cl.traj_s))

\* C7: a call of full_spectrum with renorm_interval = 0 never gets to the
\* checkpoint test (step + 1) % renorm_interval, whose evaluation panics.
C7_ZeroIntervalRejected ==
    (entry = "full_spectrum" /\ fs.renorm_interval = 0) => fs.pc # "panic"

\* The 3x3 identity: the standard basis as rows.
Identity3 ==
    [i \in 0..2 |-> [j \in 0..2 |-> IF i = j THEN Fl(1, 0) ELSE Fl(0, 0)]]

\* The number of co-integration steps of full_spectrum that got as far as the
\* checkpoint test: all the steps taken, but a last one that diverged.
StepsChecked ==
    IF fs.r2s # <<>> /\ OutOfBound(Last(fs.r2s))
    THEN Len(fs.r2s) - 1 ELSE Len(fs.r2s)

\* The exponent of axis i from the lengths logged at the checkpoints: the sum
\* of their logarithms over checkpoints * k * dt.
ExponentOf(i) ==
    FDiv(LogSum([n \in 1..Len(fs.norms) |-> fs.norms[n][i]]),
         FMul(FMul(Fl(Len(fs.norms), 0), Fl(fs.renorm_interval, 0)), fs.dt))

\* C8: the tangent set is the standard basis when the co-integration starts;
\* the checkpoints are the steps k, 2k, 3k, ... and no others; on success
\* there are floor(steps / k) of them and each exponent is the sum of the
\* logarithms of its lengths at the checkpoints over checkpoints * k * dt.
C8_CheckpointSchedule ==
    /\ (fs.pc = "steps" /\ fs.step = 0) => fs.w = Identity3
    /\ \A i \in 1..Len(fs.ckpts) : fs.ckpts[i] = i * fs.renorm_interval
    /\ Len(fs.norms) = Len(fs.ckpts)
    /\ fs.renorm_interval = 0 => fs.ckpts = <<>>
    /\ fs.renorm_interval > 0 =>
          Len(fs.ckpts) = StepsChecked \div fs.renorm_interval
    /\ (fs.pc = "done" /\ fs.ret.some) =>
          /\ Len(fs.ckpts) = fs.steps \div fs.renorm_interval
          /\ \A i \in 0..2 : fs.ret.spectrum[i] = ExponentOf(i)

\* C8 witness: a spectrum returned from two checkpoints, the last step not
\* being one.
C8_Witness ==
    /\ fs.pc = "done" /\ fs.ret.some
    /\ Len(fs.ckpts) = 2
    /\ fs.steps % fs.renorm_interval # 0


\* a >= b as f64 compares.
FGe(a, b) == FGt(a, b) \/ (a = b /\ ~IsNaN(a))

\* q holds the entries of p in some order.
Permutation3(q, p) ==
    \E f \in [0..2 -> 0..2] :
        /\ \A i \in 0..2 : \A j \in 0..2 : (f[i] = f[j]) => (i = j)
        /\ \A i \in 0..2 : q[i] = p[f[i]]

RECURSIVE PartialSum(_, _)
\* The sum of the first j + 1 entries of q, added one after the other to 0.0.
PartialSum(q, j) ==
    IF j = 0 THEN FAdd(Zero, q[0]) ELSE FAdd(PartialSum(q, j - 1), q[j])

\* The 0-based indices j at which the partial sum of the first j + 1 sorted
\* exponents is non-negative.
NonNegative == {j \in 0..2 : FGe(PartialSum(ky.sorted, j), Zero)}

\* The fractional correction at the crossing index j: the partial sum through
\* j less the exponent at j, over the magnitude of that exponent; none for a
\* magnitude below 1e-12.
Correction(j) ==
    IF FLt(FAbs(ky.sorted[j]), Fl(1, -12)) THEN Zero
    ELSE FDiv(FSub(PartialSum(ky.sorted, j), ky.sorted[j]), FAbs(ky.sorted[j]))

\* C9 as stated: the integer part of the dimension is the largest 0-based
\* index j whose partial sum of the first j + 1 sorted exponents is
\* non-negative (where some but not all partial sums are non-negative).
C9_IntegerPartIsLargestIndex ==
    (ky.pc = "done" /\ NonNegative # {} /\ NonNegative # 0..2) =>
        LET j == Cardinality(NonNegative) - 1
        IN  FGe(ky.out, Fl(j, 0)) /\ FLt(ky.out, Fl(j + 1, 0))

\* C9 amended: kaplan_yorke sorts the exponents in descending order; the
\* non-negative partial sums are those of the indices below some n; the
\* dimension is 3 when n = 3, 0 when n = 0, and n plus the correction at index n
\* otherwise, a value from n to n + 1: n is the number of non-negative partial
\* sums, one more than the largest index with a non-negative partial sum.
C9_IntegerPartIsCount ==
    ky.pc = "done" =>
        LET n == Cardinality(NonNegative)
        IN  /\ Permutation3(ky.sorted, ky.spec)
            /\ FGe(ky.sorted[0], ky.sorted[1])
            /\ FGe(ky.sorted[1], ky.sorted[2])
            /\ NonNegative = {j \in 0..2 : j < n}
            /\ n = 3 => ky.out = Fl(3, 0)
            /\ n = 0 => ky.out = Zero
            /\ n \in {1, 2} =>
                  /\ ky.out = FAdd(Fl(n, 0), Correction(n))
                  /\ FGe(ky.out, Fl(n, 0))
                  /\ FGe(Fl(n + 1, 0), ky.out)

\* C9 witness: two non-negative partial sums and a dimension strictly between
\* 2 and 3, from exponents given in another order than descending.
C9_Witness ==
    /\ ky.pc = "done"
    /\ Cardinality(NonNegative) = 2
    /\ FGt(ky.out, Fl(2, 0)) /\ FLt(ky.out, Fl(3, 0))
    /\ ky.sorted # ky.spec

\* The integer that the f64 a holds.
ToInt(a) == IF a.e >= 0 THEN a.m * Pow10(a.e) ELSE a.m \div Pow10(-a.e)

\* The f64 a holds an integer.
IsInt(a) == is_finite(a) /\ (a.e >= 0 \/ a.m % Pow10(-a.e) = 0)

\* The coefficient of monomial t in equation i of od.c.
Coef(i, t) == ToInt(od.c[10 * i + t])

\* Component i of the vector field of od.c at the integer point (x, y, z): the
\* dot product of the ten coefficients with (1, x, y, z, x^2, y^2, z^2, xy,
\* xz, yz).
Field(i, x, y, z) ==
    Coef(i, 0) + Coef(i, 1) * x + Coef(i, 2) * y + Coef(i, 3) * z
    + Coef(i, 4) * x * x + Coef(i, 5) * y * y + Coef(i, 6) * z * z
    + Coef(i, 7) * x * y + Coef(i, 8) * x * z + Coef(i, 9) * y * z

\* The partial derivative of component i of the field along axis j.
Partial(i, j, x, y, z) ==
    CASE j = 0 -> Coef(i, 1) + 2 * Coef(i, 4) * x + Coef(i, 7) * y + Coef(i, 8) * z
      [] j = 1 -> Coef(i, 2) + 2 * Coef(i, 5) * y + Coef(i, 7) * x + Coef(i, 9) * z
      [] j = 2 -> Coef(i, 3) + 2 * Coef(i, 6) * z + Coef(i, 8) * x + Coef(i, 9) * y

\* 1 on axis j, 0 on the others.
UnitStep(j, axis) == IF j = axis THEN 1 ELSE 0

\* C10: on integer coefficients and states, rhs is the dot product of each
\* equation's coefficients with the monomials, jacobian holds the partial
\* derivatives of that field in closed form, and
\* rhs(s + e_j) - rhs(s - e_j) = 2 * (column j of jacobian(s)).
C10_JacobianIsExact ==
    od.pc = "done" =>
        LET x == ToInt(od.s[0])
            y == ToInt(od.s[1])
            z == ToInt(od.s[2])
        IN  \A i \in 0..2 :
              /\ IsInt(od.f[i])
              /\ ToInt(od.f[i]) = Field(i, x, y, z)
              /\ \A j \in 0..2 :
                    /\ IsInt(od.j[i][j])
                    /\ ToInt(od.j[i][j]) = Partial(i, j, x, y, z)
                    /\ IsInt(od.fplus[j][i]) /\ IsInt(od.fminus[j][i])
                    /\ ToInt(od.fplus[j][i]) =
                          Field(i, x + UnitStep(j, 0), y + UnitStep(j, 1),
                                z + UnitStep(j, 2))
                    /\ ToInt(od.fplus[j][i]) - ToInt(od.fminus[j][i]) =
                          2 * ToInt(od.j[i][j])

\* C10 witness: a Jacobian whose entry [0][0] differs from the coefficient of
\* x in equation 0, and whose entries [0][0] and [0][2] differ.
C10_Witness ==
    /\ od.pc = "done"
    /\ ToInt(od.j[0][0]) # Coef(0, 1)
    /\ od.j[0][0] # od.j[0][2]
    /\ ToInt(od.j[1][2]) # 0


\* C11: integrate_traj returns n + 1 states, the first is s0 and each next one
\* is rk4_step of the one before; the last one is the state that integrate
\* returns for the same c, s0, dt and n (s0 itself for n = 0).
C11_TrajectoryOfSteps ==
    /\ it.tpc = "done" =>
          /\ Len(it.tret) = it.n + 1
          /\ it.tret[1] = it.s0
          /\ \A i \in 1..it.n :
                it.tret[i + 1] = rk4_step(C, it.tret[i], it.dt)
    /\ (it.tpc = "done" /\ it.ipc = "done") =>
          /\ Last(it.tret) = it.iret
          /\ it.n = 0 => (it.iret = it.s0 /\ it.tret = <<it.s0>>)

\* C11 witness: both routines returned after three steps of a trajectory that
\* moved at every step and stayed finite.
C11_Witness ==
    /\ it.tpc = "done" /\ it.ipc = "done"
    /\ it.n = 3
    /\ \A i \in 1..3 : it.tret[i + 1] # it.tret[i] /\ FiniteState(it.tret[i + 1])


\* C12: coeff_hash is a function of the coefficient bit patterns and
\* Entry::new uses it as the id; after one save into a directory without
\* entries load_all returns exactly one entry, with the id of the saved one;
\* entries with the same coefficients are written to the same file, and
\* load_all never returns two entries with the same id.
C12_CatalogRoundTrip ==
    /\ \A i \in DOMAIN ct.saved :
          /\ ct.saved[i].id = coeff_hash(ct.saved[i].coeffs)
          /\ (\A j \in DOMAIN ct.saved : j > i => ct.saved[j].id # ct.saved[i].id)
                => [path |-> path_of(ct.saved[i].id),
                    data |-> to_json(ct.saved[i])] \in ct.files
    /\ \A i \in DOMAIN ct.saved : \A j \in DOMAIN ct.saved :
          (ct.saved[i].coeffs = ct.saved[j].coeffs) =>
              (path_of(ct.saved[i].id) = path_of(ct.saved[j].id))
    /\ Cardinality({f \in ct.files : f.path.ext = "json"}) =
          Cardinality({ct.saved[i].id : i \in DOMAIN ct.saved})
    /\ \A i \in DOMAIN ct.loaded : \A j \in DOMAIN ct.loaded :
          (ct.loaded[i].id = ct.loaded[j].id) => (i = j)
    /\ (ct.pc = "loaded" /\ Len(ct.saved) = 1) =>
          /\ Len(ct.loaded) = 1
          /\ ct.loaded[1].id = ct.saved[1].id

\* C13: the variance pass is entered only after CLASSIFY_STEPS statistics
\* states that are all finite with a squared radius of at most 1e6, and its
\* i-th state is the i-th state of the statistics pass, so no state it
\* accumulates is outside the divergence bound.
C13_VariancePassRetraces ==
    (cl.pc = "variance" \/ cl.vtraj # <<>>) =>
        /\ Len(cl.straj) = CLASSIFY_STEPS
        /\ Len(cl.r2s) = CLASSIFY_STEPS
        /\ \A i \in 1..CLASSIFY_STEPS :
              /\ FiniteState(cl.straj[i])
              /\ cl.r2s[i] = R2(cl.straj[i])
              /\ ~OutOfBound(cl.r2s[i])
        /\ Len(cl.vtraj) <= CLASSIFY_STEPS
        /\ \A i \in 1..Len(cl.vtraj) :
              /\ cl.vtraj[i] = cl.straj[i]
              /\ ~OutOfBound(R2(cl.vtraj[i]))
        /\ cl.pc # "variance" => Len(cl.vtraj) = CLASSIFY_STEPS

\* C13 witness: a complete variance pass over states that differ from one
\* another and from the post-transient state.
C13_Witness ==
    /\ cl.pc \in {"spectrum", "done"}
    /\ Len(cl.vtraj) = CLASSIFY_STEPS
    /\ cl.vtraj[1] # cl.s
    /\ \A i \in 1..(CLASSIFY_STEPS - 1) : cl.vtraj[i + 1] # cl.vtraj[i]


\* C14: a call of full_spectrum with steps < renorm_interval returns None,
\* whether or not the trajectory diverged; a Some result has at least one
\* checkpoint, and its divisor count * renorm_interval * dt is not zero.
C14_NoCheckpointNoSpectrum ==
    /\ (fs.pc = "done" /\ fs.steps < fs.renorm_interval) => fs.ret = None
    /\ (fs.pc = "done" /\ fs.count = 0) => fs.ret = None
    /\ (fs.pc = "done" /\ fs.ret.some) =>
          /\ fs.count >= 1
          /\ Len(fs.ckpts) = fs.count
          /\ fs.renorm_interval >= 1
          /\ fs.steps >= fs.renorm_interval
          /\ ~IsZero(SpectrumTime(fs.count, fs.renorm_interval, fs.dt))
          /\ is_finite(SpectrumTime(fs.count, fs.renorm_interval, fs.dt))

\* C14 witness: None from a call whose transient and single step all stayed
\* finite and within the bounds, and whose one step was short of the first
\* checkpoint.
C14_Witness ==
    /\ fs.pc = "done" /\ fs.ret = None
    /\ fs.steps = 1 /\ fs.renorm_interval = 2
    /\ Len(fs.r2t) = fs.transient /\ fs.transient > 0
    /\ Len(fs.r2s) = 1
    /\ \A i \in 1..Len(fs.r2t) : ~OutOfBound(fs.r2t[i])
    /\ ~OutOfBound(fs.r2s[1])
    /\ FiniteState(fs.s)
    /\ fs.norms = <<>>


\* The partial sums of the sorted exponents first become negative at index j.
FirstNegative(j) ==
    /\ FLt(PartialSum(ky.sorted, j), Zero)
    /\ \A i \in 0..2 : i < j => ~FLt(PartialSum(ky.sorted, i), Zero)

\* The sum of the first j sorted exponents.
PrecedingSum(j) == IF j = 0 THEN Zero ELSE PartialSum(ky.sorted, j - 1)

\* The results of kaplan_yorke on the exponents of ky.spec in every order.
Reordered ==
    {kaplan_yorke([i \in 0..2 |-> ky.spec[f[i]]]) :
        f \in {g \in [0..2 -> 0..2] : \A i \in 0..2 : \E k \in 0..2 : g[k] = i}}

\* C15 as stated: the result is in [0, 3]; where the partial sums first become
\* negative at index j it is j + (sum of the first j sorted exponents) /
\* |sorted[j]|, or j for |sorted[j]| < 1e-12, a value in [j, j+1); it is 0
\* when the largest exponent is negative and the same for every order of the
\* exponents.
C15_HalfOpenInterval ==
    ky.pc = "done" =>
        /\ FGe(ky.out, Zero) /\ FGe(Fl(3, 0), ky.out)
        /\ \A j \in 0..2 : FirstNegative(j) =>
              /\ ky.out = IF FLt(FAbs(ky.sorted[j]), Fl(1, -12)) THEN Fl(j, 0)
                          ELSE FAdd(Fl(j, 0),
                                    FDiv(PrecedingSum(j), FAbs(ky.sorted[j])))
              /\ FGe(ky.out, Fl(j, 0))
              /\ FLt(ky.out, Fl(j + 1, 0))
        /\ FLt(ky.sorted[0], Zero) => ky.out = Zero
        /\ Reordered = {ky.out}

\* C15 amended: the result is in [0, 3]; where the partial sums first become
\* negative at index j it is j plus the fraction (partial sum through j, less
\* sorted[j]) / |sorted[j]| as f64 computes it, or j for |sorted[j]| < 1e-12;
\* the fraction is in [0, 1) and the result in [j, j+1], j+1 where the last
\* addition rounds up; it is 0 when the largest exponent is negative and the
\* same for every order of the exponents.
C15_ClosedInterval ==
    ky.pc = "done" =>
        /\ FGe(ky.out, Zero) /\ FGe(Fl(3, 0), ky.out)
        /\ (\A j \in 0..2 : ~FirstNegative(j)) => ky.out = Fl(3, 0)
        /\ \A j \in 0..2 : FirstNegative(j) =>
              /\ ky.out = FAdd(Fl(j, 0), Correction(j))
              /\ FGe(Correction(j), Zero) /\ FLt(Correction(j), Fl(1, 0))
              /\ FGe(PrecedingSum(j), Zero)
              /\ FLt(PrecedingSum(j), FAbs(ky.sorted[j]))
              /\ FGe(ky.out, Fl(j, 0))
              /\ FGe(Fl(j + 1, 0), ky.out)
        /\ FLt(ky.sorted[0], Zero) => ky.out = Zero
        /\ Reordered = {ky.out}

\* C15 witness: the partial sums first become negative at index 1, the
\* fraction is below 1 and the result is 2, from exponents given in another
\* order than descending.
C15_Witness ==
    /\ ky.pc = "done"
    /\ FirstNegative(1)
    /\ FLt(Correction(1), Fl(1, 0))
    /\ ky.out = Fl(2, 0)
    /\ ky.sorted # ky.spec


=============================================================================
